---- MODULE Spec2Model ----
(***************************************************************************)
(* Station uptime calculator (src/station_uptime.py).                      *)
(*                                                                         *)
(* parse_input_file fills station_chargers and charger_reports;            *)
(* calculate_station_uptime reconciles each member charger's reports into  *)
(* confirmed-up intervals, merges them and derives the station percentage. *)
(* One station is modelled: stations are computed independently.           *)
(***************************************************************************)
EXTENDS Integers, Sequences, FiniteSets

\* ---------------------------------------------------------------- bounds

\* Times of the input file are drawn from 0..MaxTime.
MaxTime == 3
\* At most this many report lines are parsed.
MaxReports == 3

\* Times of the wide input files: the spans of the 29-in-50 and 29-in-100
\* windows.
WideTimes == {0, 29, 100}

Times == 0..MaxTime

Chargers == {1, 2}

\* float('inf') and float('-inf'): beyond every time of the input.
PosInf == 1000000
NegInf == -1000000

\* ------------------------------------------------- IEEE-754 double model
\* A positive double is [mant |-> 53 bits, most significant first and
\* leading bit 1, p |-> number of mantissa bits before the binary point]:
\* its value is mant * 2^(p - 53).

MantBits == 53

RECURSIVE IntBits(_)
IntBits(n) == IF n = 0 THEN <<>> ELSE Append(IntBits(n \div 2), n % 2)

RECURSIVE BitsToInt(_)
BitsToInt(b) ==
    IF b = <<>> THEN 0
    ELSE 2 * BitsToInt(SubSeq(b, 1, Len(b) - 1)) + b[Len(b)]

Zeros(n) == SubSeq([i \in 1..n |-> 0], 1, n)

\* b + 1 on a bit sequence that is not all ones: the last 0 becomes 1 and the
\* ones after it 0.
IncBits(b) ==
    LET z == CHOOSE i \in 1..Len(b) : b[i] = 0 /\ \A j \in (i + 1)..Len(b) : b[j] = 1
    IN  SubSeq([i \in 1..Len(b) |-> IF i < z THEN b[i] ELSE IF i = z THEN 1 ELSE 0],
               1, Len(b))

\* x + y on bit sequences of equal length (the carry out is dropped): the carry
\* into position i is generated at a lower position j and propagated up to i.
AddBits(x, y) ==
    LET n == Len(x)
        carry(i) == \E j \in (i + 1)..n :
                        /\ x[j] + y[j] = 2
                        /\ \A k \in (i + 1)..(j - 1) : x[k] + y[k] = 1
    IN  SubSeq([i \in 1..n |-> (x[i] + y[i] + (IF carry(i) THEN 1 ELSE 0)) % 2], 1, n)

\* Round to nearest, ties to even: mant is incremented when more than half is
\* cut off (up), or on a tie with an odd mantissa.
RoundMant(mant, p, up, tie) ==
    IF up \/ (tie /\ mant[MantBits] = 1)
    THEN IF mant = [i \in 1..MantBits |-> 1]
         THEN [mant |-> <<1>> \o Zeros(MantBits - 1), p |-> p + 1]
         ELSE [mant |-> IncBits(mant), p |-> p]
    ELSE [mant |-> mant, p |-> p]

\* 2^i mod T, by repeated squaring.
RECURSIVE Pow2Mod(_, _)
Pow2Mod(i, T) ==
    IF i = 0 THEN 1 % T
    ELSE LET h == Pow2Mod(i \div 2, T)
         IN  (((h * h) % T) * (IF i % 2 = 1 THEN 2 ELSE 1)) % T

\* The remainder of the long division L / T after i bits of the fraction, and
\* the i-th bit of the fraction (i >= 1).
DivRem(L, T, i) == ((L % T) * Pow2Mod(i, T)) % T
QuotBit(L, T, i) == IF 2 * DivRem(L, T, i - 1) >= T THEN 1 ELSE 0

\* total_up_time / total_time: Python's true division of two ints, the
\* correctly rounded double (L > 0, T > 0): the first 53 significant bits of
\* the quotient, rounded by the remainder left after them.
FloatDiv(L, T) ==
    LET ib   == IntBits(L \div T)
        ni   == Len(ib)
        z    == IF ni > 0 THEN 0
                ELSE (CHOOSE i \in 1..32 : /\ QuotBit(L, T, i) = 1
                                           /\ \A j \in 1..(i - 1) : QuotBit(L, T, j) = 0) - 1
        last == z + MantBits - ni
        mant == ib \o [j \in 1..(MantBits - ni) |-> QuotBit(L, T, z + j)]
        rem  == DivRem(L, T, last)
    IN  RoundMant(mant, IF ni > 0 THEN ni ELSE -z, 2 * rem > T, 2 * rem = T)

\* q * 100: the exact 60-bit product mant * (64 + 32 + 4), rounded to a double.
FloatTimes100(q) ==
    LET a    == <<0>> \o q.mant \o Zeros(6)
        b    == <<0, 0>> \o q.mant \o Zeros(5)
        c    == Zeros(5) \o q.mant \o Zeros(2)
        prod == AddBits(AddBits(a, b), c)
        sig  == IF prod[1] = 1 THEN prod ELSE SubSeq(prod, 2, Len(prod))
        n    == Len(sig)
        rest == SubSeq(sig, MantBits + 1, n)
        half == <<1>> \o Zeros(n - MantBits - 1)
        more == \E i \in 2..Len(rest) : rest[i] = 1
    IN  RoundMant(SubSeq(sig, 1, MantBits), q.p + (n - MantBits),
                  rest[1] = 1 /\ more, rest = half)

\* int(x): truncation of a positive double to an integer.
FloatToInt(x) ==
    IF x.p <= 0 THEN 0
    ELSE IF x.p <= MantBits THEN BitsToInt(SubSeq(x.mant, 1, x.p))
    ELSE BitsToInt(x.mant \o Zeros(x.p - MantBits))

\* A ZeroDivisionError raised by the division (main prints ERROR).
ZeroDivisionError == -1

\* int((total_up_time / total_time) * 100), computed in doubles.
FloatPercentage(total_up_time, total_time) ==
    IF total_time = 0 THEN ZeroDivisionError
    ELSE IF total_up_time = 0 THEN 0
    ELSE FloatToInt(FloatTimes100(FloatDiv(total_up_time, total_time)))

\* FloatPercentage evaluated once for every window length up to TableSpan and
\* every up time within the window.
TableSpan == 100
PercentageTable ==
    SubSeq([T \in 1..TableSpan |->
               SubSeq([L \in 1..T |-> FloatPercentage(L, T)], 1, T)],
           1, TableSpan)

UptimePercentage(total_up_time, total_time) ==
    IF total_time \in 1..TableSpan /\ total_up_time \in 1..total_time
    THEN PercentageTable[total_time][total_up_time]
    ELSE FloatPercentage(total_up_time, total_time)

\* ------------------------------------------------------------ the reports

Report(s, e, up) == [start_time |-> s, end_time |-> e, is_up |-> up]

\* The sort key of line 135, (start_time, not is_up), compared as Python
\* compares tuples (False < True).
NotIsUp(r) == IF r.is_up THEN 0 ELSE 1
KeyLeq(a, b) ==
    \/ a.start_time < b.start_time
    \/ a.start_time = b.start_time /\ NotIsUp(a) <= NotIsUp(b)

\* The reports left in input order: the sort of line 134 forgotten.
SortReports_Unsorted(rs) == rs

\* sorted(): a stable sort. Each report is inserted, in input order, behind the
\* reports whose key is not greater than its own.
InsertReport(s, r) ==
    LET k == Cardinality({i \in 1..Len(s) : KeyLeq(s[i], r)})
    IN  SubSeq(s, 1, k) \o <<r>> \o SubSeq(s, k + 1, Len(s))

RECURSIVE SortReports(_)
SortReports(rs) ==
    IF rs = <<>> THEN <<>>
    ELSE InsertReport(SortReports(SubSeq(rs, 1, Len(rs) - 1)), rs[Len(rs)])

\* The remainders with r.start_time and r.end_time swapped.
SplitInterval_Swapped(iv, r) ==
    IF iv[2] <= r.start_time \/ iv[1] >= r.end_time
    THEN <<iv>>
    ELSE (IF iv[1] < r.start_time THEN <<<<iv[1], r.end_time>>>> ELSE <<>>)
         \o (IF iv[2] > r.end_time THEN <<<<r.start_time, iv[2]>>>> ELSE <<>>)

\* An overlapped interval dropped whole: the remainders forgotten.
SplitInterval_DropsWhole(iv, r) ==
    IF iv[2] <= r.start_time \/ iv[1] >= r.end_time THEN <<iv>> ELSE <<>>

\* What a down report r leaves of one interval (lines 151-159).
SplitInterval(iv, r) ==
    IF iv[2] <= r.start_time \/ iv[1] >= r.end_time
    THEN <<iv>>
    ELSE (IF iv[1] < r.start_time THEN <<<<iv[1], r.start_time>>>> ELSE <<>>)
         \o (IF iv[2] > r.end_time THEN <<<<r.end_time, iv[2]>>>> ELSE <<>>)

\* new_intervals of a down report r (lines 149-160).
RECURSIVE SubtractDown(_, _)
SubtractDown(intervals, r) ==
    IF intervals = <<>> THEN <<>>
    ELSE SplitInterval(Head(intervals), r) \o SubtractDown(Tail(intervals), r)

\* An up report assigned to the list instead of appended to it.
ApplyOne_UpReplaces(intervals, r) ==
    IF r.is_up THEN <<<<r.start_time, r.end_time>>>>
    ELSE SubtractDown(intervals, r)

\* One pass of the loop over a charger's reports (lines 143-160).
ApplyOne(intervals, r) ==
    IF r.is_up THEN Append(intervals, <<r.start_time, r.end_time>>)
    ELSE SubtractDown(intervals, r)

RECURSIVE ProcessReports(_, _)
ProcessReports(intervals, rs) ==
    IF rs = <<>> THEN intervals
    ELSE ProcessReports(ApplyOne(intervals, Head(rs)), Tail(rs))

\* charger_intervals of a charger whose raw reports are rs (lines 134-160).
Reconcile(rs) == ProcessReports(<<>>, SortReports(rs))

RECURSIVE MinStart(_)
MinStart(rs) ==
    IF Len(rs) = 1 THEN rs[1].start_time
    ELSE LET m == MinStart(Tail(rs))
         IN  IF rs[1].start_time < m THEN rs[1].start_time ELSE m

RECURSIVE MaxEnd(_)
MaxEnd(rs) ==
    IF Len(rs) = 1 THEN rs[1].end_time
    ELSE LET m == MaxEnd(Tail(rs))
         IN  IF rs[1].end_time > m THEN rs[1].end_time ELSE m

Min2(a, b) == IF a <= b THEN a ELSE b
Max2(a, b) == IF a >= b THEN a ELSE b

\* ---------------------------------------------------------- the intervals

\* Tuples compare lexicographically.
IntervalLeq(a, b) == a[1] < b[1] \/ (a[1] = b[1] /\ a[2] <= b[2])

InsertInterval(s, iv) ==
    LET k == Cardinality({i \in 1..Len(s) : IntervalLeq(s[i], iv)})
    IN  SubSeq(s, 1, k) \o <<iv>> \o SubSeq(s, k + 1, Len(s))

\* intervals.sort() (line 97)
RECURSIVE SortIntervals(_)
SortIntervals(ivs) ==
    IF ivs = <<>> THEN <<>>
    ELSE InsertInterval(SortIntervals(SubSeq(ivs, 1, Len(ivs) - 1)), ivs[Len(ivs)])

\* Every interval appended: the overlap test of line 101 never true.
MergeOne_NoMerge(merged, interval) == Append(merged, interval)

\* One pass of the loop of _merge_intervals (lines 100-106).
MergeOne(merged, interval) ==
    LET last == merged[Len(merged)]
    IN  IF interval[1] <= last[2]
        THEN SubSeq(merged, 1, Len(merged) - 1)
                 \o <<<<last[1], Max2(last[2], interval[2])>>>>
        ELSE Append(merged, interval)

RECURSIVE MergeLoop(_, _)
MergeLoop(merged, rest) ==
    IF rest = <<>> THEN merged
    ELSE MergeLoop(MergeOne(merged, Head(rest)), Tail(rest))

\* _merge_intervals (lines 83-107)
MergeIntervals(intervals) ==
    IF intervals = <<>> THEN <<>>
    ELSE LET s == SortIntervals(intervals)
         IN  MergeLoop(<<s[1]>>, Tail(s))

\* sum(end - start for start, end in merged_intervals) (line 188)
RECURSIVE SumLengths(_)
SumLengths(ivs) ==
    IF ivs = <<>> THEN 0
    ELSE (Head(ivs)[2] - Head(ivs)[1]) + SumLengths(Tail(ivs))

\* charger_up_intervals is a dict, kept in insertion order: a sequence of
\* [charger_id, intervals] entries.
RECURSIVE AllIntervals(_)
AllIntervals(cui) ==
    IF cui = <<>> THEN <<>>
    ELSE Head(cui).intervals \o AllIntervals(Tail(cui))

IntervalsOf(cui, c) ==
    IF \E i \in 1..Len(cui) : cui[i].charger_id = c
    THEN cui[CHOOSE i \in 1..Len(cui) : cui[i].charger_id = c].intervals
    ELSE <<>>

\* any(any(start <= min_time <= end ...) ...) (lines 172-175)
UpAtInstant(cui, t) ==
    \E i \in 1..Len(cui) : \E j \in 1..Len(cui[i].intervals) :
        cui[i].intervals[j][1] <= t /\ t <= cui[i].intervals[j][2]

\* merged_intervals (line 185); empty on the two early exits.
StationMerged(has, mn, mx, cui) ==
    IF ~has \/ mn = mx THEN <<>> ELSE MergeIntervals(AllIntervals(cui))

\* The instantaneous case of lines 170-177 left out.
StationResult_NoInstant(has, mn, mx, cui) ==
    IF ~has THEN 0
    ELSE UptimePercentage(SumLengths(MergeIntervals(AllIntervals(cui))), mx - mn)

\* The percentage appended to results (lines 165-191).
StationResult(has, mn, mx, cui) ==
    IF ~has THEN 0
    ELSE IF mn = mx THEN (IF UpAtInstant(cui, mn) THEN 100 ELSE 0)
    ELSE UptimePercentage(SumLengths(MergeIntervals(AllIntervals(cui))), mx - mn)

\* ------------------------------------- the calculation as one function

RECURSIVE SetToSeq(_)
SetToSeq(S) ==
    IF S = {} THEN <<>>
    ELSE LET m == CHOOSE x \in S : \A y \in S : x <= y
         IN  <<m>> \o SetToSeq(S \ {m})

\* charger_up_intervals after the loop of line 131 has visited the chargers in
\* the given order (lines 131-163).
RECURSIVE CollectUp(_, _)
CollectUp(order, cr) ==
    IF order = <<>> THEN <<>>
    ELSE LET c   == Head(order)
             ivs == Reconcile(cr[c])
         IN  (IF cr[c] /= <<>> /\ ivs /= <<>>
              THEN <<[charger_id |-> c, intervals |-> ivs]>>
              ELSE <<>>) \o CollectUp(Tail(order), cr)

\* has_reports, min_time and max_time after that loop (lines 136-139).
HasReports(sc, cr) == \E c \in sc : cr[c] /= <<>>
WindowMin(sc, cr) ==
    LET S == {MinStart(cr[c]) : c \in {d \in sc : cr[d] /= <<>>}}
    IN  IF S = {} THEN PosInf ELSE CHOOSE x \in S : \A y \in S : x <= y
WindowMax(sc, cr) ==
    LET S == {MaxEnd(cr[c]) : c \in {d \in sc : cr[d] /= <<>>}}
    IN  IF S = {} THEN NegInf ELSE CHOOSE x \in S : \A y \in S : x >= y

\* The percentage calculate_station_uptime returns for a station whose chargers
\* are sc when the reports are cr and the chargers are visited in ascending
\* order (lines 119-191).
StationUptime(sc, cr) ==
    StationResult(HasReports(sc, cr), WindowMin(sc, cr), WindowMax(sc, cr),
                  CollectUp(SetToSeq(sc), cr))

\* --------------------------------------------------------------- the state

VARIABLES
    station_chargers,     \* the charger ids of the station (line 22)
    charger_reports,      \* charger id -> its reports, in input order (line 24)
    pc,                   \* "parse", "chargers", "reports" or "done"
    todo,                 \* the chargers the loop of line 131 has yet to visit
    charger_id,           \* the charger of the loop of line 131
    reports,              \* its sorted reports (line 134)
    idx,                  \* the position of r in reports (line 143)
    charger_intervals,    \* line 142
    charger_up_intervals, \* line 128
    min_time, max_time, has_reports,  \* lines 123-125
    merged_intervals,     \* line 185
    results               \* the percentages appended for the station

vars == <<station_chargers, charger_reports, pc, todo, charger_id, reports, idx,
          charger_intervals, charger_up_intervals, min_time, max_time,
          has_reports, merged_intervals, results>>

calc_vars == <<todo, charger_id, reports, idx, charger_intervals,
               charger_up_intervals, min_time, max_time, has_reports,
               merged_intervals, results>>

NumReports == Len(charger_reports[1]) + Len(charger_reports[2])

\* __init__ and the [Stations] section: the station lists charger 1, or
\* chargers 1 and 2 (charger 2 may belong to no station).
Init ==
    /\ station_chargers \in {{1}, {1, 2}}
    /\ charger_reports = [c \in Chargers |-> <<>>]
    /\ pc = "parse"
    /\ todo = {}
    /\ charger_id = 0
    /\ reports = <<>>
    /\ idx = 0
    /\ charger_intervals = <<>>
    /\ charger_up_intervals = <<>>
    /\ min_time = PosInf
    /\ max_time = NegInf
    /\ has_reports = FALSE
    /\ merged_intervals = <<>>
    /\ results = <<>>

\* One line of the reports section (lines 59-78), its times drawn from T. A
\* line with start_time > end_time raises and nothing is computed.
ParseReport(T) ==
    /\ pc = "parse"
    /\ NumReports < MaxReports
    /\ \E c \in Chargers, s \in T, e \in T, up \in BOOLEAN :
          /\ s <= e
          /\ charger_reports' =
                 [charger_reports EXCEPT ![c] = Append(@, Report(s, e, up))]
    /\ UNCHANGED <<station_chargers, pc>>
    /\ UNCHANGED calc_vars

\* calculate_station_uptime reaches the station (lines 119-128).
StartStation ==
    /\ pc = "parse"
    /\ pc' = "chargers"
    /\ todo' = station_chargers
    /\ min_time' = PosInf
    /\ max_time' = NegInf
    /\ has_reports' = FALSE
    /\ charger_up_intervals' = <<>>
    /\ UNCHANGED <<station_chargers, charger_reports, charger_id, reports, idx,
                   charger_intervals, merged_intervals, results>>

\* charger_intervals set up once, outside the loop of line 131, and so shared
\* by the chargers.
NextCharger_SharedList ==
    /\ pc = "chargers"
    /\ \E c \in todo :
          /\ todo' = todo \ {c}
          /\ charger_id' = c
          /\ IF charger_reports[c] = <<>>
             THEN UNCHANGED <<pc, reports, idx, charger_intervals, min_time,
                              max_time, has_reports>>
             ELSE /\ reports' = SortReports(charger_reports[c])
                  /\ has_reports' = TRUE
                  /\ min_time' = Min2(min_time, MinStart(charger_reports[c]))
                  /\ max_time' = Max2(max_time, MaxEnd(charger_reports[c]))
                  /\ UNCHANGED charger_intervals
                  /\ idx' = 1
                  /\ pc' = "reports"
    /\ UNCHANGED <<station_chargers, charger_reports, charger_up_intervals,
                   merged_intervals, results>>

\* The loop of line 131 takes the next charger of the set, in any order
\* (lines 131-142). A charger without reports is passed over.
NextCharger ==
    /\ pc = "chargers"
    /\ \E c \in todo :
          /\ todo' = todo \ {c}
          /\ charger_id' = c
          /\ IF charger_reports[c] = <<>>
             THEN UNCHANGED <<pc, reports, idx, charger_intervals, min_time,
                              max_time, has_reports>>
             ELSE /\ reports' = SortReports(charger_reports[c])
                  /\ has_reports' = TRUE
                  /\ min_time' = Min2(min_time, MinStart(charger_reports[c]))
                  /\ max_time' = Max2(max_time, MaxEnd(charger_reports[c]))
                  /\ charger_intervals' = <<>>
                  /\ idx' = 1
                  /\ pc' = "reports"
    /\ UNCHANGED <<station_chargers, charger_reports, charger_up_intervals,
                   merged_intervals, results>>

\* One pass of the loop of line 143 (lines 143-160).
ApplyReport ==
    /\ pc = "reports"
    /\ idx <= Len(reports)
    /\ charger_intervals' = ApplyOne(charger_intervals, reports[idx])
    /\ idx' = idx + 1
    /\ UNCHANGED <<station_chargers, charger_reports, pc, todo, charger_id,
                   reports, charger_up_intervals, min_time, max_time,
                   has_reports, merged_intervals, results>>

\* The loop of line 143 is over (lines 162-163).
EndCharger ==
    /\ pc = "reports"
    /\ idx > Len(reports)
    /\ charger_up_intervals' =
           IF charger_intervals /= <<>>
           THEN Append(charger_up_intervals,
                       [charger_id |-> charger_id, intervals |-> charger_intervals])
           ELSE charger_up_intervals
    /\ pc' = "chargers"
    /\ UNCHANGED <<station_chargers, charger_reports, todo, charger_id, reports,
                   idx, charger_intervals, min_time, max_time, has_reports,
                   merged_intervals, results>>

\* The loop of line 131 is over: the station's percentage (lines 165-191).
Finish ==
    /\ pc = "chargers"
    /\ todo = {}
    /\ merged_intervals' =
           StationMerged(has_reports, min_time, max_time, charger_up_intervals)
    /\ results' = Append(results,
           StationResult(has_reports, min_time, max_time, charger_up_intervals))
    /\ pc' = "done"
    /\ UNCHANGED <<station_chargers, charger_reports, todo, charger_id, reports,
                   idx, charger_intervals, charger_up_intervals, min_time,
                   max_time, has_reports>>

Calculate == StartStation \/ NextCharger \/ ApplyReport \/ EndCharger \/ Finish

Next == ParseReport(Times) \/ Calculate

Spec == Init /\ [][Next]_vars

\* The same program on input files whose times are drawn from WideTimes.
NextWide == ParseReport(WideTimes) \/ Calculate

SpecWide == Init /\ [][NextWide]_vars

TypeOK ==
    /\ pc \in {"parse", "chargers", "reports", "done"}
    /\ todo \subseteq station_chargers
    /\ Len(results) = (IF pc = "done" THEN 1 ELSE 0)

\* --------------------------------------------------------------- claims

\* Two intervals share a span of positive length.
PositiveOverlap(x, y) == Max2(x[1], y[1]) < Min2(x[2], y[2])

NonOverlapping(ivs) ==
    \A i, j \in 1..Len(ivs) : i < j => ~PositiveOverlap(ivs[i], ivs[j])

\* The loop over the current charger's reports has run to its end.
ChargerDone == pc = "reports" /\ idx > Len(reports)

\* C1: in the processing order of a charger's reports, of a down report and an
\* up report with the same start_time the down report comes first; so a
\* charger whose reports are an up and a down report over the same span keeps
\* the up report's interval.
C1_DownBeforeUp ==
    pc = "reports" =>
        /\ \A i, j \in 1..Len(reports) :
              (/\ i < j
               /\ reports[i].start_time = reports[j].start_time
               /\ reports[i].is_up /= reports[j].is_up) => ~reports[i].is_up
        /\ (/\ ChargerDone
            /\ Len(reports) = 2
            /\ reports[1].is_up /= reports[2].is_up
            /\ reports[1].start_time = reports[2].start_time
            /\ reports[1].end_time = reports[2].end_time)
           => charger_intervals = <<<<reports[1].start_time, reports[1].end_time>>>>

\* C2, as claimed: the final charger_intervals list of every charger is
\* non-overlapping, whatever its reports.
C2_FinalListNonOverlapping ==
    ChargerDone => NonOverlapping(charger_intervals)

\* The up reports of a list overlap pairwise in no span of positive length.
UpReportsDisjoint(rs) ==
    \A i, j \in 1..Len(rs) :
        (i < j /\ rs[i].is_up /\ rs[j].is_up) =>
            ~PositiveOverlap(<<rs[i].start_time, rs[i].end_time>>,
                             <<rs[j].start_time, rs[j].end_time>>)

\* C2, amended: the final charger_intervals list of a charger is
\* non-overlapping when no two of the charger's up reports overlap each other;
\* up reports that overlap are appended as they are and stay overlapping until
\* _merge_intervals merges them for the station.
C2_NonOverlappingWhenUpsDisjoint ==
    (ChargerDone /\ UpReportsDisjoint(reports)) => NonOverlapping(charger_intervals)

\* A down report has split an up interval in two and a second up report has
\* been appended.
C2_Witness ==
    /\ ChargerDone
    /\ UpReportsDisjoint(reports)
    /\ Len(reports) = 3
    /\ Len(charger_intervals) = 3
    /\ \E i \in 1..Len(reports) : ~reports[i].is_up

\* C5: the percentage of a station is an integer from 0 to 100, and the summed
\* length of the merged intervals is at most max_time - min_time.
C5_PercentageInRange ==
    pc = "done" =>
        /\ results[1] \in 0..100
        /\ (has_reports /\ min_time < max_time) =>
               SumLengths(merged_intervals) <= max_time - min_time

\* Overlapping intervals have been merged and the station is up for a part of
\* its window.
C5_Witness ==
    /\ pc = "done"
    /\ results[1] \in 1..99
    /\ Len(merged_intervals) < Len(AllIntervals(charger_up_intervals))

\* The total length of the union of the confirmed-up intervals of all
\* chargers: the unit spans of the window that some interval covers.
UnionLength(cui, mn, mx) ==
    Cardinality({k \in mn..(mx - 1) :
        \E i \in 1..Len(cui) : \E j \in 1..Len(cui[i].intervals) :
            cui[i].intervals[j][1] <= k /\ k + 1 <= cui[i].intervals[j][2]})

\* C7: for a window of positive length the percentage is
\* floor(100 * L / (max_time - min_time)), L the length of the union of the
\* confirmed-up intervals; up 29 out of a window of 100 gives 29.
C7_FloorOfRatio ==
    (pc = "done" /\ has_reports /\ min_time < max_time) =>
        results[1] = (100 * UnionLength(charger_up_intervals, min_time, max_time))
                         \div (max_time - min_time)

\* C8: when the window is the single instant t the percentage is 100 if an
\* interval of some charger contains t and 0 otherwise, no division by the
\* zero window length is attempted, and a lone report (t, t, up) gives 100.
C8_InstantWindow ==
    (pc = "done" /\ has_reports /\ min_time = max_time) =>
        /\ results[1] /= ZeroDivisionError
        /\ results[1] =
               (IF \E c \in station_chargers :
                      \E j \in 1..Len(IntervalsOf(charger_up_intervals, c)) :
                          /\ IntervalsOf(charger_up_intervals, c)[j][1] <= min_time
                          /\ min_time <= IntervalsOf(charger_up_intervals, c)[j][2]
                THEN 100 ELSE 0)
        /\ (\E c \in station_chargers :
               /\ charger_reports[c] = <<Report(min_time, min_time, TRUE)>>
               /\ \A d \in station_chargers \ {c} : charger_reports[d] = <<>>)
           => results[1] = 100

\* The window is an instant at which one charger of the station is up and the
\* other has only a down report.
C8_Witness ==
    /\ pc = "done"
    /\ has_reports
    /\ min_time = max_time
    /\ results[1] = 100
    /\ \E c \in station_chargers :
          /\ charger_reports[c] /= <<>>
          /\ \A i \in 1..Len(charger_reports[c]) : ~charger_reports[c][i].is_up

\* The step parses one more report of charger c; ParsedReport(c) is that report.
AddsReport(c) ==
    pc = "parse" /\ Len(charger_reports'[c]) = Len(charger_reports[c]) + 1
ParsedReport(c) == charger_reports'[c][Len(charger_reports'[c])]

\* The reports of charger c without the last one, and that last one.
WithoutLast(c) ==
    [charger_reports EXCEPT ![c] = SubSeq(@, 1, Len(@) - 1)]
LastReport(c) == charger_reports[c][Len(charger_reports[c])]

\* Report r lies within the window observed for the station under reports cr.
InsideWindow(r, cr) ==
    /\ WindowMin(station_chargers, cr) <= r.start_time
    /\ r.end_time <= WindowMax(station_chargers, cr)

\* C3, as claimed: one more up report for a charger of the station never lowers
\* the station's percentage, wherever the report lies.
C3_UpReportNeverLowers ==
    [][\A c \in station_chargers :
          (AddsReport(c) /\ ParsedReport(c).is_up) =>
              StationUptime(station_chargers, charger_reports')
                  >= StationUptime(station_chargers, charger_reports)]_vars

\* C3, amended: one more up report for a charger of the station never lowers
\* the station's percentage when the report lies within the window observed so
\* far (min_time <= s and e <= max_time) or the station had no report yet; an
\* up report that widens the window can lower the percentage.
C3_UpReportInsideWindowNeverLowers ==
    [][\A c \in station_chargers :
          (/\ AddsReport(c)
           /\ ParsedReport(c).is_up
           /\ \/ ~HasReports(station_chargers, charger_reports)
              \/ InsideWindow(ParsedReport(c), charger_reports)) =>
              StationUptime(station_chargers, charger_reports')
                  >= StationUptime(station_chargers, charger_reports)]_vars

\* The report parsed last is an up report inside the window of the reports
\* before it, and it has raised the percentage.
C3_Witness ==
    /\ pc = "parse"
    /\ \E c \in station_chargers :
          /\ charger_reports[c] /= <<>>
          /\ \A d \in Chargers \ {c} : charger_reports[d] = <<>>
          /\ LastReport(c).is_up
          /\ HasReports(station_chargers, WithoutLast(c))
          /\ InsideWindow(LastReport(c), WithoutLast(c))
          /\ StationUptime(station_chargers, charger_reports)
                 > StationUptime(station_chargers, WithoutLast(c))

\* C4: one more down report for a charger of the station never raises the
\* station's percentage.
C4_DownReportNeverRaises ==
    [][\A c \in station_chargers :
          (AddsReport(c) /\ ~ParsedReport(c).is_up) =>
              StationUptime(station_chargers, charger_reports')
                  <= StationUptime(station_chargers, charger_reports)]_vars

\* The report parsed last is a down report that cuts an up interval inside the
\* window, and it has lowered the percentage.
C4_Witness ==
    /\ pc = "parse"
    /\ \E c \in station_chargers :
          /\ charger_reports[c] /= <<>>
          /\ \A d \in Chargers \ {c} : charger_reports[d] = <<>>
          /\ ~LastReport(c).is_up
          /\ HasReports(station_chargers, WithoutLast(c))
          /\ InsideWindow(LastReport(c), WithoutLast(c))
          /\ 0 < StationUptime(station_chargers, charger_reports)
          /\ StationUptime(station_chargers, charger_reports)
                 < StationUptime(station_chargers, WithoutLast(c))

\* The orders in which the reports s can appear in the input.
PermsOf(s) ==
    LET n == Len(s)
    IN  {SubSeq([i \in 1..n |-> s[f[i]]], 1, n) :
            f \in {g \in [1..n -> 1..n] : \A i, j \in 1..n : g[i] = g[j] => i = j}}

\* C6: the percentage depends neither on the order in which the chargers of
\* the station are visited nor on the order of a charger's reports in the
\* input: whatever order the loop took, the result is the one computed with
\* the chargers in ascending order from any permutation of the report lists.
C6_OrderIndependent ==
    pc = "done" =>
        \A q1 \in PermsOf(charger_reports[1]), q2 \in PermsOf(charger_reports[2]) :
            results[1] = StationUptime(station_chargers, <<q1, q2>>)

\* Charger 2 was visited before charger 1, a report list is not in processing
\* order in the input, and the station is up for a part of its window.
C6_Witness ==
    /\ pc = "done"
    /\ Len(charger_up_intervals) = 2
    /\ charger_up_intervals[1].charger_id = 2
    /\ \E c \in station_chargers : SortReports(charger_reports[c]) /= charger_reports[c]
    /\ results[1] \in 1..99

\* C9: a down report of one charger removes or shortens no interval of another
\* charger: the entries of charger_up_intervals are left as they are while
\* another charger's reports are processed, each entry is the reconciliation
\* of its own charger's reports alone, the station result is computed from
\* those entries, and one charger up and another down over the same window
\* gives 100.
C9_ChargersIndependent ==
    /\ [][pc = "reports" =>
             \A i \in 1..Len(charger_up_intervals) :
                 /\ i <= Len(charger_up_intervals')
                 /\ charger_up_intervals'[i] = charger_up_intervals[i]]_vars
    /\ [](\A i \in 1..Len(charger_up_intervals) :
             charger_up_intervals[i].intervals
                 = Reconcile(charger_reports[charger_up_intervals[i].charger_id]))
    /\ [](pc = "done" =>
             /\ \A c \in station_chargers :
                    IntervalsOf(charger_up_intervals, c) = Reconcile(charger_reports[c])
             /\ results[1] = StationResult(has_reports, min_time, max_time,
                                           charger_up_intervals)
             /\ (\E c, d \in station_chargers :
                    /\ min_time < max_time
                    /\ charger_reports[c] = <<Report(min_time, max_time, TRUE)>>
                    /\ charger_reports[d] = <<Report(min_time, max_time, FALSE)>>)
                => results[1] = 100)

\* One charger is up over the whole window, the other is down over the whole
\* window, and the station is up 100 percent.
C9_Witness ==
    /\ pc = "done"
    /\ min_time < max_time
    /\ \E c, d \in station_chargers :
          /\ charger_reports[c] = <<Report(min_time, max_time, TRUE)>>
          /\ charger_reports[d] = <<Report(min_time, max_time, FALSE)>>
    /\ results[1] = 100

\* The step applies the down report reports[idx] to charger_intervals.
DownStep ==
    /\ pc = "reports"
    /\ idx <= Len(reports)
    /\ ~reports[idx].is_up
    /\ idx' = idx + 1

\* What the rule leaves of the interval (a, b) under the down window (s, e).
RulePieces(a, b, s, e) ==
    IF b <= s \/ a >= e THEN {<<a, b>>}
    ELSE (IF a < s THEN {<<a, s>>} ELSE {}) \cup (IF b > e THEN {<<e, b>>} ELSE {})

\* Intervals have integer ends, so a point and the midpoints between integers
\* stand for every position a point can take; p2 is twice the point.
Covers2(iv, p2) == 2 * iv[1] <= p2 /\ p2 <= 2 * iv[2]
CoveredBy2(ivs, p2) == \E i \in 1..Len(ivs) : Covers2(ivs[i], p2)
Points2 == 0..(2 * MaxTime)

\* The rule itself, and no point strictly inside the window left covered.
DownStepRule(s, e) ==
    /\ {charger_intervals'[i] : i \in 1..Len(charger_intervals')}
           = UNION {RulePieces(charger_intervals[i][1], charger_intervals[i][2], s, e) :
                       i \in 1..Len(charger_intervals)}
    /\ \A i \in 1..Len(charger_intervals') :
           ~(s < e /\ charger_intervals'[i][1] < e /\ charger_intervals'[i][2] > s)
    /\ \A p2 \in Points2 :
           (2 * s < p2 /\ p2 < 2 * e) => ~CoveredBy2(charger_intervals', p2)

\* No two reports of the list start at the same time.
NoEqualStarts(rs) ==
    \A i, j \in 1..Len(rs) : i < j => rs[i].start_time /= rs[j].start_time

\* C10, as claimed (on report lists without equal start times, where the
\* tie-break plays no part): after a down report (s, e) is applied, every point
\* of the previous intervals outside the open window (s, e) is still covered.
C10_OutsideOpenWindowStillCovered ==
    [][(DownStep /\ NoEqualStarts(reports)) =>
          LET s == reports[idx].start_time
              e == reports[idx].end_time
          IN  /\ DownStepRule(s, e)
              /\ \A p2 \in Points2 :
                     (CoveredBy2(charger_intervals, p2) /\ ~(2 * s < p2 /\ p2 < 2 * e))
                         => CoveredBy2(charger_intervals', p2)]_vars

\* C10, amended: applying a down report (s, e) keeps an interval (a, b) with
\* b <= s or a >= e and replaces any other by (a, s) if a < s and by (e, b) if
\* b > e; afterwards no interval contains a point strictly between s and e, and
\* every point of the previous intervals outside the closed window [s, e]
\* (p < s or p > e) is still covered. The ends s and e themselves can be lost:
\* an interval that starts at s or ends at e loses that end. Up (0,100) followed
\* by down (25,100) leaves exactly (0,25) and the station result is 25.
C10_DownSubtractsWindow ==
    [][/\ DownStep =>
              (LET s == reports[idx].start_time
                   e == reports[idx].end_time
               IN  /\ DownStepRule(s, e)
                   /\ \A p2 \in Points2 :
                          (/\ CoveredBy2(charger_intervals, p2)
                           /\ (p2 < 2 * s \/ p2 > 2 * e))
                              => CoveredBy2(charger_intervals', p2))
       /\ Reconcile(<<Report(0, 100, TRUE), Report(25, 100, FALSE)>>) = <<<<0, 25>>>>
       /\ StationUptime({1}, <<<<Report(0, 100, TRUE), Report(25, 100, FALSE)>>, <<>>>>)
              = 25]_vars

\* A down report strictly inside an up interval has just split it in two.
C10_Witness ==
    /\ pc = "reports"
    /\ idx = 3
    /\ reports[1].is_up
    /\ ~reports[2].is_up
    /\ reports[1].start_time < reports[2].start_time
    /\ reports[2].start_time < reports[2].end_time
    /\ reports[2].end_time < reports[1].end_time
    /\ charger_intervals = <<<<reports[1].start_time, reports[2].start_time>>,
                             <<reports[2].end_time, reports[1].end_time>>>>

====
